---------------------------- MODULE Spec2Model ----------------------------
(***************************************************************************)
(* Model of src/flight_monitor.py: the AmadeusFlightMonitor object (OAuth2 *)
(* token cache, flight search, offer parsing, Telegram notification) and   *)
(* the main() run that drives it.                                          *)
(*                                                                         *)
(* Python values are modelled as follows.  None is the empty sequence and  *)
(* a datetime t is <<t>> (seconds on one clock); strings are strings, the  *)
(* token None is the string "None".  price.total, which Python parses with *)
(* float(), is a record: a decimal numeral (an integer here), a missing    *)
(* key, or a string float() rejects.  IEEE specials ("nan", "inf") are     *)
(* outside the modelled price domain.                                      *)
(***************************************************************************)
EXTENDS Integers, Sequences, FiniteSets, TLC

VARIABLES
    now,               \* the wall clock read by datetime.now()
    access_token,      \* self.access_token
    token_expires_at,  \* self.token_expires_at: <<>> (None) or <<t>>
    last,              \* observation of the latest get_access_token / search_flights call
    calls,             \* number of client calls made so far (bounded)
    ticks,             \* number of clock advances so far (bounded)
    offers,            \* the offer list handed to parse_flights
    direct_only,       \* self.direct_only
    flights,           \* the list parse_flights returned
    parsed,            \* whether parse_flights has run on `offers`
    pc,                \* position of the run inside main() / monitor_and_notify()
    env,               \* the environment variables that are set
    data,              \* the value search_flights returned to monitor_and_notify
    message,           \* the text handed to the messaging channel
    sends,             \* the outbound send-message attempts of the run, in order
    requests,          \* the token and search requests the run has issued
    trace              \* the pipeline stages the run has entered, in order

vars == <<now, access_token, token_expires_at, last, calls, ticks,
          offers, direct_only, flights, parsed,
          pc, env, data, message, sends, requests, trace>>

clientVars == <<now, access_token, token_expires_at, last, calls, ticks>>
parseVars  == <<offers, direct_only, flights, parsed>>
runVars    == <<pc, env, data, message, sends, requests, trace>>

-----------------------------------------------------------------------------
(* Bounds of the model *)

MaxCalls == 2       \* client calls per behaviour
MaxTicks == 2       \* clock advances per behaviour
MaxOffers == 3      \* length of an offer list given to parse_flights
RunMaxOffers == 2   \* length of the offer list a run's search returns

(* Program constants *)

DefaultExpiresIn == 1799   \* token_data.get('expires_in', 1799)
SafetyMargin == 60         \* timedelta(seconds=expires_in - 60)
max_price == 3000000       \* self.max_price
SearchTimeout == 30        \* requests.get(..., timeout=30)

-----------------------------------------------------------------------------
(* Python values *)

None == <<>>
NoneStr == "None"

\* Python truthiness of a token value (None and "" are falsy).
Truthy(tok) == tok \notin {NoneStr, ""}

Tokens == {"tokA", "tokB"}

-----------------------------------------------------------------------------
(* The token endpoint's possible answers to requests.post *)

TokenResp(status, body, token, ttl) ==
    [status |-> status, body |-> body, token |-> token, ttl |-> ttl]

\* expires_in values the provider may report besides omitting it: one below the
\* margin (the expiry lies in the past) and one just above it.
ReportedTTLs == {0, SafetyMargin + 1}

TokenResponses ==
    {TokenResp("exception", "-", "", None),     \* requests.post raised
     TokenResp("non200", "-", "", None),        \* status_code # 200
     TokenResp("200", "nokey", "", None),       \* no 'access_token' key: KeyError
     TokenResp("200", "badttl", "tokB", None),  \* expires_in is not a number: TypeError
     TokenResp("200", "ok", "", None)}          \* an empty access_token
    \cup {TokenResp("200", "ok", t, ttl) :
            t \in Tokens, ttl \in {None} \cup {<<n>> : n \in ReportedTTLs}}

\* The answers that differ for the caller of get_access_token: a failure of each
\* kind, an empty token, a token that can be reused and one that cannot.
CallerTokenResponses ==
    {TokenResp("exception", "-", "", None),
     TokenResp("non200", "-", "", None),
     TokenResp("200", "ok", "", None),
     TokenResp("200", "ok", "tokA", None),
     TokenResp("200", "ok", "tokB", <<0>>)}

NoTokenResp == TokenResp("none", "-", "", None)

\* token_data.get('expires_in', 1799)
ExpiresIn(resp) == IF resp.ttl = None THEN DefaultExpiresIn ELSE resp.ttl[1]

\* Time a request may take between being sent and its response being read.
Latencies == {0, 1}

\* How far the clock may advance between two calls.
TickSteps == {1, DefaultExpiresIn - SafetyMargin}

-----------------------------------------------------------------------------
(* Offers as the provider returns them *)

\* price.total: a numeral, a missing key, or a string float() cannot parse.
Num(n) == [kind |-> "num", val |-> n]
MissingPrice == [kind |-> "missing", val |-> 0]
BadPrice == [kind |-> "bad", val |-> 0]

\* An offer: its price.total and, per itinerary leg, the number of segments.
Offer(p, legs) == [price |-> p, legs |-> legs]

PriceInputs ==
    {MissingPrice, BadPrice}
    \cup {Num(n) : n \in {-1, 0, 900000, max_price, max_price + 1}}

\* Legs other than a non-stop round trip: none, one-way, multi-city, a stop on
\* either leg, a leg without segments.
OddLegShapes == {<<>>, <<1>>, <<1, 1, 1>>, <<2, 1>>, <<1, 2>>, <<0, 1>>}

\* Every price on a non-stop round trip, and every other leg shape on a price
\* under the ceiling.
OfferPool ==
    {Offer(p, <<1, 1>>) : p \in PriceInputs}
    \cup {Offer(Num(900000), l) : l \in OddLegShapes}

RECURSIVE SeqsUpTo(_, _)
SeqsUpTo(S, n) ==
    IF n = 0 THEN {<<>>}
    ELSE LET shorter == SeqsUpTo(S, n - 1)
         IN  shorter \cup {Append(s, x) : s \in {q \in shorter : Len(q) = n - 1}, x \in S}

-----------------------------------------------------------------------------
(* The search endpoint's possible answers to requests.get *)

SearchResp(status, body, list, dicts) ==
    [status |-> status, body |-> body, offers |-> list, dictionaries |-> dicts]

\* 'dictionaries' of the body: an object, absent, or JSON null.
DictKinds == {"dict", "absent", "null"}

SearchFailures ==
    {SearchResp("timeout", "-", <<>>, "absent"),     \* requests.exceptions.Timeout
     SearchResp("exception", "-", <<>>, "absent"),   \* any other exception of requests.get
     SearchResp("non200", "-", <<>>, "absent"),      \* status_code # 200
     SearchResp("200", "notjson", <<>>, "absent")}   \* response.json() raises

SearchResponses(lists) ==
    SearchFailures
    \cup {SearchResp("200", "ok", l, d) : l \in lists, d \in DictKinds}

NoSearchResp == SearchResp("none", "-", <<>>, "absent")

\* What search_flights returns: {} or {'data': ..., 'dictionaries': ...}.
EmptyResult == [empty |-> TRUE, data |-> <<>>, dictionaries |-> "absent"]
Result(list, dicts) == [empty |-> FALSE, data |-> list, dictionaries |-> dicts]

-----------------------------------------------------------------------------
(* AmadeusFlightMonitor.get_access_token *)

\* A reuse test that still accepts the token at the instant of its expiry.
CacheValidAtExpiry(tok, exp, t) == Truthy(tok) /\ exp # None /\ t <= exp[1]

\* The reuse test: a token and an expiry are held and the clock is before the expiry.
CacheValid(tok, exp, t) == Truthy(tok) /\ exp # None /\ t < exp[1]

\* The call on cache (tok, exp) at time t, the endpoint answering resp after lat.
\* `requests` counts the token requests issued; `at` is the clock when the call
\* computed the expiry (the clock on return otherwise).
get_access_token(tok, exp, t, resp, lat) ==
    IF CacheValid(tok, exp, t)
    THEN [access_token |-> tok, token_expires_at |-> exp,
          result |-> tok, requests |-> 0, at |-> t]
    ELSE LET t2 == t + lat IN
         IF resp.status = "200" /\ resp.body = "ok"
         THEN [access_token |-> resp.token,
               token_expires_at |-> <<t2 + (ExpiresIn(resp) - SafetyMargin)>>,
               result |-> resp.token, requests |-> 1, at |-> t2]
         ELSE IF resp.status = "200" /\ resp.body = "badttl"
         THEN \* line 75 has assigned the token when line 77 raises
              [access_token |-> resp.token, token_expires_at |-> exp,
               result |-> NoneStr, requests |-> 1, at |-> t2]
         ELSE [access_token |-> tok, token_expires_at |-> exp,
               result |-> NoneStr, requests |-> 1, at |-> t2]

-----------------------------------------------------------------------------
(* AmadeusFlightMonitor.search_flights *)

\* The exception a search answer makes the try block raise, if any.
SearchException(sresp) ==
    IF sresp.status = "timeout" THEN "Timeout"
    ELSE IF sresp.status = "exception" \/ (sresp.status = "200" /\ sresp.body = "notjson")
    THEN "Exception"
    ELSE "none"

\* The except clauses of search_flights: requests.exceptions.Timeout, then Exception.
SearchHandlers == {"Timeout", "Exception"}

\* A try block that builds the result without looking at the status code.
SearchResultAnyStatus(sresp) ==
    IF sresp.status \in {"200", "non200"} /\ sresp.body # "notjson"
    THEN Result(sresp.offers,
                IF sresp.dictionaries = "absent" THEN "dict" ELSE sresp.dictionaries)
    ELSE EmptyResult

\* The value the try block returns when it returns.
SearchResult(sresp) ==
    IF sresp.status = "200" /\ sresp.body = "ok"
    THEN Result(sresp.offers,
                IF sresp.dictionaries = "absent" THEN "dict" ELSE sresp.dictionaries)
    ELSE EmptyResult

\* The rest of search_flights once get_access_token has returned g.
search_with_token(g, sresp, lat) ==
    IF ~Truthy(g.result)
    THEN [access_token |-> g.access_token, token_expires_at |-> g.token_expires_at,
          token |-> g.result, stamp |-> g.at, now |-> g.at,
          tokenRequests |-> g.requests, searchRequests |-> 0,
          result |-> EmptyResult, raised |-> FALSE]
    ELSE [access_token |-> g.access_token, token_expires_at |-> g.token_expires_at,
          token |-> g.result, stamp |-> g.at, now |-> g.at + lat,
          tokenRequests |-> g.requests, searchRequests |-> 1,
          result |-> IF SearchException(sresp) = "none"
                     THEN SearchResult(sresp) ELSE EmptyResult,
          raised |-> SearchException(sresp) \notin SearchHandlers \cup {"none"}]

\* The call on cache (tok, exp) at time t; each request it issues takes lat.
search_flights(tok, exp, t, tresp, sresp, lat) ==
    CHOOSE r \in {search_with_token(g, sresp, lat) :
                    g \in {get_access_token(tok, exp, t, tresp, lat)}} : TRUE

-----------------------------------------------------------------------------
(* AmadeusFlightMonitor.parse_flights *)

\* float(price_info.get('total', '0')) raises on a string that is no number.
PriceRaises(o) == o.price.kind = "bad"

\* float(price_info.get('total', '0')): a missing total reads as 0.
TotalPrice(o) == IF o.price.kind = "num" THEN o.price.val ELSE 0

\* The loop body's filters without the price ceiling.
KeepsAnyPrice(o, direct) ==
    /\ ~(Len(o.legs) < 2)
    /\ ~(direct /\ (o.legs[1] > 1 \/ o.legs[2] > 1))

\* The loop body's filters: an offer none of the three `continue`s skips.
Keeps(o, direct) ==
    /\ ~(TotalPrice(o) > max_price)
    /\ ~(Len(o.legs) < 2)
    /\ ~(direct /\ (o.legs[1] > 1 \/ o.legs[2] > 1))

\* flight_info, reduced to its price and the position of its offer in the input.
FlightInfo(o, i) == [src |-> i, price_total |-> TotalPrice(o)]

\* The for loop from offer i on, acc being `flights` so far.  An offer that raises
\* ends the loop: the try statement encloses the whole loop.
RECURSIVE ParseLoop(_, _, _, _)
ParseLoop(list, i, acc, direct) ==
    IF i > Len(list) THEN [flights |-> acc, raised |-> FALSE]
    ELSE IF PriceRaises(list[i]) THEN [flights |-> acc, raised |-> TRUE]
    ELSE IF Keeps(list[i], direct)
    THEN ParseLoop(list, i + 1, Append(acc, FlightInfo(list[i], i)), direct)
    ELSE ParseLoop(list, i + 1, acc, direct)

\* x put into the sorted list s behind every entry that is not dearer than x.
RECURSIVE InsertByPrice(_, _)
InsertByPrice(s, x) ==
    IF s = <<>> THEN <<x>>
    ELSE IF Head(s).price_total <= x.price_total
    THEN <<Head(s)>> \o InsertByPrice(Tail(s), x)
    ELSE <<x>> \o s

\* flights.sort(key=lambda x: x['price_total']): list.sort is stable.
RECURSIVE SortByPrice(_)
SortByPrice(s) ==
    IF s = <<>> THEN <<>>
    ELSE InsertByPrice(SortByPrice(SubSeq(s, 1, Len(s) - 1)), s[Len(s)])

\* parse_flights(data): `raised` says an exception left the function, which only
\* line 158 outside the try statement can cause; an exception inside the loop is
\* caught after the append of the offers before it, and skips the sort.
parse_flights(d, direct) ==
    IF d.dictionaries = "null" THEN [raised |-> TRUE, flights |-> <<>>]
    ELSE CHOOSE out \in
           {[raised |-> FALSE,
             flights |-> IF r.raised THEN r.flights ELSE SortByPrice(r.flights)] :
              r \in {ParseLoop(d.data, 1, <<>>, direct)}} : TRUE

-----------------------------------------------------------------------------
(* The client driven call by call: get_access_token and search_flights on  *)
(* one monitor object while the clock advances.                            *)

NoCall ==
    [op |-> "none", preTok |-> NoneStr, preExp |-> None, at |-> 0,
     tresp |-> NoTokenResp, sresp |-> NoSearchResp,
     tokenRequests |-> 0, searchRequests |-> 0,
     token |-> NoneStr, stamp |-> 0, result |-> EmptyResult, raised |-> FALSE]

\* Offer lists the search endpoint returns in the call-by-call specification.
ClientLists == {<<Offer(Num(900000), <<1, 1>>)>>}

ParseIdle ==
    /\ offers = <<>>
    /\ direct_only = TRUE
    /\ flights = <<>>
    /\ parsed = FALSE

RunIdle ==
    /\ pc = "idle"
    /\ env = {}
    /\ data = EmptyResult
    /\ message = "none"
    /\ sends = <<>>
    /\ requests = [token |-> 0, search |-> 0]
    /\ trace = <<>>

\* __init__: no token, no expiry.
ClientInit ==
    /\ now = 0
    /\ access_token = NoneStr
    /\ token_expires_at = None
    /\ last = NoCall
    /\ calls = 0
    /\ ticks = 0

InitClient == ClientInit /\ ParseIdle /\ RunIdle

Tick ==
    /\ ticks < MaxTicks
    /\ \E d \in TickSteps : now' = now + d
    /\ ticks' = ticks + 1
    /\ UNCHANGED <<access_token, token_expires_at, last, calls>>
    /\ UNCHANGED <<parseVars, runVars>>

CallGetAccessToken ==
    /\ calls < MaxCalls
    /\ \E resp \in TokenResponses, lat \in Latencies :
         \E g \in {get_access_token(access_token, token_expires_at, now, resp, lat)} :
         \* an endpoint that is not asked gives no answer
         /\ g.requests = 0 => (resp = CHOOSE x \in TokenResponses : TRUE) /\ lat = 0
         /\ access_token' = g.access_token
         /\ token_expires_at' = g.token_expires_at
         /\ now' = g.at
         /\ last' = [op |-> "get_access_token",
                     preTok |-> access_token, preExp |-> token_expires_at, at |-> now,
                     tresp |-> IF g.requests = 0 THEN NoTokenResp ELSE resp,
                     sresp |-> NoSearchResp,
                     tokenRequests |-> g.requests, searchRequests |-> 0,
                     token |-> g.result, stamp |-> g.at,
                     result |-> EmptyResult, raised |-> FALSE]
    /\ calls' = calls + 1
    /\ UNCHANGED ticks
    /\ UNCHANGED <<parseVars, runVars>>

CallSearchFlights ==
    /\ calls < MaxCalls
    /\ \E tresp \in CallerTokenResponses, sresp \in SearchResponses(ClientLists),
          lat \in Latencies :
         \E r \in {search_flights(access_token, token_expires_at, now, tresp, sresp, lat)} :
         \* an endpoint that is not asked gives no answer
         /\ r.tokenRequests = 0 => tresp = CHOOSE x \in CallerTokenResponses : TRUE
         /\ r.searchRequests = 0 => sresp = CHOOSE x \in SearchFailures : TRUE
         /\ r.tokenRequests + r.searchRequests = 0 => lat = 0
         /\ access_token' = r.access_token
         /\ token_expires_at' = r.token_expires_at
         /\ now' = r.now
         /\ last' = [op |-> "search_flights",
                     preTok |-> access_token, preExp |-> token_expires_at, at |-> now,
                     tresp |-> IF r.tokenRequests = 0 THEN NoTokenResp ELSE tresp,
                     sresp |-> IF r.searchRequests = 0 THEN NoSearchResp ELSE sresp,
                     tokenRequests |-> r.tokenRequests,
                     searchRequests |-> r.searchRequests,
                     token |-> r.token, stamp |-> r.stamp,
                     result |-> r.result, raised |-> r.raised]
    /\ calls' = calls + 1
    /\ UNCHANGED ticks
    /\ UNCHANGED <<parseVars, runVars>>

\* A sequence of get_access_token calls with the clock advancing.
NextToken == Tick \/ CallGetAccessToken

SpecToken == InitClient /\ [][NextToken]_vars

\* A sequence of search_flights calls with the clock advancing.
NextSearch == Tick \/ CallSearchFlights

SpecSearch == InitClient /\ [][NextSearch]_vars

-----------------------------------------------------------------------------
(* parse_flights applied to one offer list *)

InitParse ==
    /\ ClientInit
    /\ RunIdle
    /\ offers \in SeqsUpTo(OfferPool, MaxOffers)
    /\ direct_only \in BOOLEAN
    /\ flights = <<>>
    /\ parsed = FALSE

Parse ==
    /\ ~parsed
    /\ flights' = parse_flights(Result(offers, "dict"), direct_only).flights
    /\ parsed' = TRUE
    /\ UNCHANGED <<offers, direct_only>>
    /\ UNCHANGED <<clientVars, runVars>>

NextParse == Parse

SpecParse == InitParse /\ [][NextParse]_vars

-----------------------------------------------------------------------------
(* One run: main() constructs the monitor and awaits monitor_and_notify() *)

\* The environment variables __init__ requires.
Credentials ==
    {"AMADEUS_API_KEY", "AMADEUS_API_SECRET", "TELEGRAM_BOT_TOKEN", "TELEGRAM_CHAT_ID"}

\* A test that looks at the provider's key and secret only.
AllCredentialsProviderOnly(e) == {"AMADEUS_API_KEY", "AMADEUS_API_SECRET"} \subseteq e

\* all([...]) in __init__: every required variable is set.
AllCredentials(e) == Credentials \subseteq e

\* Outcomes of Bot.send_message: delivered, or a TelegramError (the class the
\* library raises for transport and API failures).
SendOutcomes == {"ok", "TelegramError"}

\* send_telegram_message catches TelegramError.
SendHandlers == {"TelegramError"}

\* A format_message without the branch for an empty list.
format_message_offers_only(fl) == "offers_found"

\* format_message: the text for an empty list, else the listing of the offers.
format_message(fl) == IF fl = <<>> THEN "none_found" ELSE "offers_found"

SendAttempt(by, text, outcome) == [by |-> by, text |-> text, outcome |-> outcome]

InitRun ==
    /\ ClientInit
    /\ ParseIdle
    /\ pc = "main"
    /\ env \in SUBSET Credentials
    /\ data = EmptyResult
    /\ message = "none"
    /\ sends = <<>>
    /\ requests = [token |-> 0, search |-> 0]
    /\ trace = <<>>

\* monitor = AmadeusFlightMonitor(): raises ValueError unless every credential is set.
Construct ==
    /\ pc = "main"
    /\ pc' = IF AllCredentials(env) THEN "search" ELSE "except"
    /\ trace' = Append(trace, "construct")
    /\ UNCHANGED <<env, data, message, sends, requests>>
    /\ UNCHANGED <<clientVars, parseVars>>

\* A test that never takes the failure branch.
SearchFailedNever(d) == FALSE

\* `if not data`: only the empty dict is falsy; a result whose offer list is empty
\* still holds its two keys.
SearchFailed(d) == d.empty

\* data = self.search_flights()
Search ==
    /\ pc = "search"
    /\ \E tresp \in CallerTokenResponses,
          sresp \in SearchResponses(SeqsUpTo(OfferPool, RunMaxOffers)),
          lat \in Latencies :
         \E r \in {search_flights(access_token, token_expires_at, now, tresp, sresp, lat)} :
         \* an endpoint that is not asked gives no answer
         /\ r.searchRequests = 0 => sresp = CHOOSE x \in SearchFailures : TRUE
         /\ access_token' = r.access_token
         /\ token_expires_at' = r.token_expires_at
         /\ now' = r.now
         /\ data' = r.result
         /\ requests' = [token |-> requests.token + r.tokenRequests,
                         search |-> requests.search + r.searchRequests]
         /\ pc' = IF SearchFailed(r.result) THEN "notify_failure" ELSE "parse"
    /\ trace' = Append(trace, "search")
    /\ UNCHANGED <<last, calls, ticks>>
    /\ UNCHANGED <<env, message, sends>>
    /\ UNCHANGED parseVars

\* The timeout each outbound call is issued with: requests.post is given none (it
\* then waits without limit), requests.get is given 30 s, and Bot.send_message is
\* left to the finite default of the messaging library.
TimeoutOf(call) ==
    CASE call = "token" -> None
      [] call = "search" -> <<SearchTimeout>>
      [] call = "send" -> <<"library default">>

\* The token endpoint never answers: a request issued without a timeout does not
\* return, and search_flights, awaited by the run, stays inside requests.post.
TokenRequestHangs ==
    /\ pc = "search"
    /\ ~CacheValid(access_token, token_expires_at, now)
    /\ TimeoutOf("token") = None
    /\ pc' = "blocked"
    /\ requests' = [requests EXCEPT !.token = @ + 1]
    /\ trace' = Append(trace, "token_request")
    /\ UNCHANGED <<env, data, message, sends>>
    /\ UNCHANGED <<clientVars, parseVars>>

\* if not data: await self.send_telegram_message(<search failed>); return
NotifySearchFailure ==
    /\ pc = "notify_failure"
    /\ \E outcome \in SendOutcomes :
         /\ sends' = Append(sends, SendAttempt("send_telegram_message", "search_failed", outcome))
         /\ pc' = IF outcome = "ok" \/ outcome \in SendHandlers THEN "done" ELSE "except"
    /\ message' = "search_failed"
    /\ trace' = Append(trace, "send")
    /\ UNCHANGED <<env, data, requests>>
    /\ UNCHANGED <<clientVars, parseVars>>

\* flights = self.parse_flights(data)
ParseData ==
    /\ pc = "parse"
    /\ \E r \in {parse_flights(data, direct_only)} :
         /\ flights' = r.flights
         /\ parsed' = ~r.raised
         /\ pc' = IF r.raised THEN "except" ELSE "format"
    /\ offers' = data.data
    /\ trace' = Append(trace, "parse")
    /\ UNCHANGED direct_only
    /\ UNCHANGED <<env, data, message, sends, requests>>
    /\ UNCHANGED clientVars

\* message = self.format_message(flights)
Format ==
    /\ pc = "format"
    /\ message' = format_message(flights)
    /\ pc' = "send"
    /\ trace' = Append(trace, "format")
    /\ UNCHANGED <<env, data, sends, requests>>
    /\ UNCHANGED <<clientVars, parseVars>>

\* await self.send_telegram_message(message), then the summary prints
Send ==
    /\ pc = "send"
    /\ \E outcome \in SendOutcomes :
         /\ sends' = Append(sends, SendAttempt("send_telegram_message", message, outcome))
         /\ pc' = IF outcome = "ok" \/ outcome \in SendHandlers THEN "done" ELSE "except"
    /\ trace' = Append(trace, "send")
    /\ UNCHANGED <<env, data, message, requests>>
    /\ UNCHANGED <<clientVars, parseVars>>

\* except Exception in main(): with both Telegram variables set, bot.send_message
\* is awaited outside any try statement, so its exception leaves main().
HandleError ==
    /\ pc = "except"
    /\ IF {"TELEGRAM_BOT_TOKEN", "TELEGRAM_CHAT_ID"} \subseteq env
       THEN \E outcome \in SendOutcomes :
              /\ sends' = Append(sends, SendAttempt("main", "run_error", outcome))
              /\ pc' = IF outcome = "ok" THEN "done" ELSE "crashed"
       ELSE /\ sends' = sends
            /\ pc' = "done"
    /\ trace' = Append(trace, "except")
    /\ UNCHANGED <<env, data, message, requests>>
    /\ UNCHANGED <<clientVars, parseVars>>

Next ==
    \/ Construct
    \/ Search
    \/ TokenRequestHangs
    \/ NotifySearchFailure
    \/ ParseData
    \/ Format
    \/ Send
    \/ HandleError

Spec == InitRun /\ [][Next]_vars

-----------------------------------------------------------------------------
(* Properties of the token cache and of the search client *)

\* The cache test of get_access_token, spelled out on the observed call.
WasFresh(c) == Truthy(c.preTok) /\ c.preExp # None /\ c.at < c.preExp[1]

\* C1: a get_access_token call returns the cached token without a token request
\* exactly when a token is cached and now < token_expires_at, and otherwise issues
\* exactly one token request; after a request answered 200 with a token, the expiry
\* is the clock read for that request + expires_in (1799 when omitted) - 60 s; so a
\* cached token is never handed out at or after its expiry.
TokenCachePolicy ==
    last.op = "get_access_token" =>
        /\ WasFresh(last) <=> last.tokenRequests = 0
        /\ ~WasFresh(last) => last.tokenRequests = 1
        /\ WasFresh(last) =>
             /\ last.token = last.preTok
             /\ access_token = last.preTok
             /\ token_expires_at = last.preExp
             /\ last.at < token_expires_at[1]
        /\ (last.tokenRequests = 1 /\ last.tresp.status = "200" /\ last.tresp.body = "ok") =>
             /\ last.token = last.tresp.token
             /\ access_token = last.tresp.token
             /\ token_expires_at =
                  <<last.stamp
                    + (IF last.tresp.ttl = None THEN 1799 ELSE last.tresp.ttl[1]) - 60>>

\* A cached token is handed out after the clock has advanced.
TokenReusedBeforeExpiry ==
    /\ last.op = "get_access_token"
    /\ last.tokenRequests = 0
    /\ last.at > 0
    /\ last.token \in Tokens

\* C2: search_flights never raises and never retries: at most one token request and
\* at most one search request per call; it returns the empty result when no token
\* was obtained (and then issues no search request) and when the search request
\* answers non-200, times out or raises; only a 200 answer yields the result that
\* holds the offers and the dictionaries.
SearchSingleAttempt ==
    last.op = "search_flights" =>
        /\ ~last.raised
        /\ last.tokenRequests \in {0, 1}
        /\ last.searchRequests \in {0, 1}
        /\ ~Truthy(last.token) => last.searchRequests = 0 /\ last.result = EmptyResult
        /\ Truthy(last.token) => last.searchRequests = 1
        /\ (last.searchRequests = 1 /\ last.sresp.status # "200") => last.result = EmptyResult
        /\ ~last.result.empty =>
             /\ last.sresp.status = "200"
             /\ last.result.data = last.sresp.offers
             /\ last.result.dictionaries \in {"dict", "null"}

\* A search request timed out and the call returned the empty result.
SearchTimedOutEmpty ==
    /\ last.op = "search_flights"
    /\ last.tokenRequests = 1
    /\ last.searchRequests = 1
    /\ last.sresp.status = "timeout"
    /\ last.result = EmptyResult

-----------------------------------------------------------------------------
(* Properties of parse_flights *)

\* The offer a record of the output was made from.
OfferOf(f) == offers[f.src]

\* The price an offer states, 0 when it states none.
StatedPrice(o) == IF o.price.kind = "num" THEN o.price.val ELSE 0

\* An offer whose price.total is missing or cannot be parsed.
Malformed(o) == o.price.kind \in {"missing", "bad"}

\* C3: parse_flights outputs no record for an offer whose total price is missing,
\* zero or negative: every record of the output has price_total > 0.
OutputPricesPositive ==
    parsed => \A i \in DOMAIN flights : flights[i].price_total > 0

DirectOnlyOneSegmentPerLeg ==
    (parsed /\ direct_only) =>
        \A i \in DOMAIN flights :
            /\ Len(OfferOf(flights[i]).legs) >= 2
            /\ OfferOf(flights[i]).legs[1] = 1
            /\ OfferOf(flights[i]).legs[2] = 1

\* C6: parse_flights outputs a record only for an offer with exactly two legs.
OutputExactlyTwoLegs ==
    parsed => \A i \in DOMAIN flights : Len(OfferOf(flights[i]).legs) = 2

\* C7: for every input list, malformed offers included, the output is sorted
\* ascending by price_total, records of equal price keeping their input order.
OutputSortedStable ==
    parsed =>
        \A i, j \in DOMAIN flights :
            i < j =>
                /\ flights[i].price_total <= flights[j].price_total
                /\ flights[i].price_total = flights[j].price_total =>
                       flights[i].src < flights[j].src

\* C8: a malformed offer affects only itself: it is dropped, and every other offer
\* of the list that passes the filters still appears in the output.
MalformedOfferAffectsOnlyItself ==
    parsed =>
        \A k \in DOMAIN offers :
            IF Malformed(offers[k])
            THEN \A i \in DOMAIN flights : flights[i].src # k
            ELSE Keeps(offers[k], direct_only) =>
                     \E i \in DOMAIN flights : flights[i].src = k

-----------------------------------------------------------------------------
(* Properties of the run *)

\* The run's search returned a result and parse_flights returned no flight.
NoneQualified == ~data.empty /\ parsed /\ flights = <<>>

\* C9: notification makes at most one send attempt per run, and a send failure
\* never raises out of the dispatcher or crashes the run.
SingleSendNeverCrashes ==
    /\ Len(sends) <= 1
    /\ pc # "crashed"

\* The counting half of C9 alone: at most one send attempt per run.
SendAttemptsAtMostOne == Len(sends) <= 1

\* C10 as stated: in a run whose search succeeds and in which no offer qualifies,
\* no message is sent and the run completes normally.
NoSendWhenNoneQualify ==
    (NoneQualified /\ pc = "done") => sends = <<>>

\* C10 as amended: in such a run send_telegram_message is called exactly once, with
\* the "none found" text, whatever the outcome of the send, and the run completes
\* normally: no exception reaches main().
OneNoneFoundSendWhenNoneQualify ==
    NoneQualified =>
        /\ pc \in {"format", "send", "done"}
        /\ "except" \notin {trace[i] : i \in DOMAIN trace}
        /\ pc = "done" =>
             /\ Len(sends) = 1
             /\ sends[1].by = "send_telegram_message"
             /\ sends[1].text = "none_found"

\* A run ended after the search returned offers none of which qualified, and the
\* send of the "none found" text failed.
NoneQualifiedRunDone ==
    /\ NoneQualified
    /\ data.data # <<>>
    /\ pc = "done"
    /\ Len(sends) = 1
    /\ sends[1].outcome = "TelegramError"

\* The stages the run has entered.
Entered == {trace[i] : i \in DOMAIN trace}

\* C11: if any required credential is absent the run fails at startup: the
\* constructor raises before any token or search request is issued, and no search,
\* qualification or offer notification takes place in that run.
MissingCredentialFailsAtStartup ==
    (Credentials \ env # {}) =>
        /\ requests = [token |-> 0, search |-> 0]
        /\ Entered \subseteq {"construct", "except"}
        /\ pc \in {"main", "except", "done", "crashed"}
        /\ data = EmptyResult
        /\ ~parsed
        /\ \A i \in DOMAIN sends : sends[i].by = "main" /\ sends[i].text = "run_error"
        /\ pc \in {"done", "crashed"} => trace = <<"construct", "except">>

\* A run without the provider's secret has ended in main()'s except clause, which
\* reported the error through the messaging channel.
StartupFailureReported ==
    /\ env = Credentials \ {"AMADEUS_API_SECRET"}
    /\ pc = "done"
    /\ trace = <<"construct", "except">>
    /\ Len(sends) = 1

\* Stage a is entered before every entry of stage b.
Before(a, b) ==
    \A i \in DOMAIN trace : trace[i] = b => \E j \in 1..(i - 1) : trace[j] = a

\* The messages that report the offers of a search: the listing and "none found".
ResultTexts == {"offers_found", "none_found"}

\* The run's search has returned.
Searched == "search" \in Entered

\* In a run of the kind `failed`, parse_flights and format_message are never
\* invoked, no result message is produced and at most one failure notice is sent.
AbortsWhen(failed) ==
    failed =>
        /\ "parse" \notin Entered
        /\ "format" \notin Entered
        /\ message \notin ResultTexts
        /\ Len(sends) <= 1
        /\ \A i \in DOMAIN sends : sends[i].text = "search_failed"
        /\ pc \in {"notify_failure", "done"}

\* In every other run parse_flights runs only after the search has returned and the
\* notification is sent only after parse_flights and format_message.
OrderedWhen(other) ==
    other =>
        /\ Before("search", "parse")
        /\ Before("parse", "format")
        /\ Before("format", "send")

\* C12 as stated: in any run where the search request fails or returns no data the
\* pipeline is aborted; every other run is ordered search, qualification, notification.
SearchFailureOrNoDataAborts ==
    Searched =>
        /\ AbortsWhen(data.empty \/ data.data = <<>>)
        /\ OrderedWhen(~(data.empty \/ data.data = <<>>))

\* C12 as amended: the pipeline is aborted exactly in the runs where search_flights
\* returns the empty result (no token, non-200, timeout, exception); a 200 answer
\* with an empty offer list is parsed and formatted like any other; every run that
\* is not aborted is ordered search, qualification, notification.
SearchFailureAborts ==
    Searched =>
        /\ AbortsWhen(data.empty)
        /\ OrderedWhen(~data.empty)
        /\ (~data.empty /\ pc \in {"format", "send", "done"}) => "parse" \in Entered

\* A run whose search request failed has ended after one failure notice.
SearchFailedRunDone ==
    /\ Searched
    /\ data.empty
    /\ requests = [token |-> 1, search |-> 1]
    /\ pc = "done"
    /\ Len(sends) = 1
    /\ sends[1].text = "search_failed"

-----------------------------------------------------------------------------
(* Properties of the cached credential *)

\* C13: the cached credential is never partially updated: after any
\* get_access_token call the pair (access_token, token_expires_at) either holds both
\* values of one newly issued credential or is entirely unchanged; a token request
\* that fails (non-200, transport error, an exception while the body is processed)
\* leaves both fields as they were.
CredentialNeverPartiallyUpdated ==
    last.op = "get_access_token" =>
        /\ \/ /\ access_token = last.preTok
              /\ token_expires_at = last.preExp
           \/ /\ last.tresp.status = "200"
              /\ last.tresp.body = "ok"
              /\ access_token = last.tresp.token
              /\ token_expires_at =
                   <<last.stamp
                     + (IF last.tresp.ttl = None THEN 1799 ELSE last.tresp.ttl[1]) - 60>>
        /\ (last.tokenRequests = 1 /\ last.token = NoneStr) =>
             /\ access_token = last.preTok
             /\ token_expires_at = last.preExp

-----------------------------------------------------------------------------
(* Properties of the run's network calls *)

\* C14: every outbound network call of a run (token request, search request,
\* notification send) is issued with a finite timeout, so that the run always
\* terminates, completing or aborting, even when an endpoint never responds.
EveryCallTimedRunTerminates ==
    /\ requests.token > 0 => TimeoutOf("token") # None
    /\ requests.search > 0 => TimeoutOf("search") # None
    /\ sends # <<>> => TimeoutOf("send") # None
    /\ pc \in {"done", "crashed"} \/ ENABLED Next

=============================================================================
